---- MODULE Spec2Model ----
(***************************************************************************)
(* Verification model of the deterministic encounter seed of the adventure *)
(* game: the GameSeed codec (src/adventure/rng.py) and the seeded Random   *)
(* generator built on top of it, as used by the game and by the            *)
(* adventureseed audit command (src/adventure/dev.py); the action buttons  *)
(* of the adventure sessions and the Special Action button                 *)
(* (src/adventure/game_session.py); the class ability commands and the     *)
(* heroclass command (src/adventure/class_abilities.py); the rebirth       *)
(* command (src/adventure/rebirth.py) with its confirmation prompt         *)
(* (src/adventure/helpers.py); and the buttons and the purchase form of    *)
(* the cart (src/adventure/cart.py).                                       *)
(*                                                                         *)
(* Python integers are unbounded, the seed needs more than 38 bits, and    *)
(* the codec works with shifts and XOR.  An integer is therefore modelled  *)
(* as the set of positions of its 1 bits, in two's complement on IntBits   *)
(* bits (bit IntBits-1 is the sign).  IntsFit states that no value of the  *)
(* model leaves that range, so the arithmetic is Python's exactly.         *)
(***************************************************************************)
EXTENDS Integers, Sequences, FiniteSets, TLC

\* Width of the modelled integers.
IntBits == 64

Bit == 0 .. (IntBits - 1)

Max(a, b) == IF a >= b THEN a ELSE b

Min(a, b) == IF a <= b THEN a ELSE b

\* ------------------------------------------------------------------------
\* Python int arithmetic on bit sets
\* ------------------------------------------------------------------------

\* The bit set of a natural number below 2^31.
FromNat(n) == { i \in 0 .. 30 : (n \div (2 ^ i)) % 2 = 1 }

\* The bit set of an integer of magnitude below 2^31 (two's complement).
FromInt(n) == IF n >= 0 THEN FromNat(n) ELSE Bit \ FromNat((0 - n) - 1)

IsNeg(a) == (IntBits - 1) \in a

\* a << k
Shl(a, k) == { i + k : i \in a } \cap Bit

\* a >> k (floor, the sign is extended)
Shr(a, k) ==
    { i - k : i \in { j \in a : j >= k } }
        \cup (IF IsNeg(a) THEN (IntBits - k) .. (IntBits - 1) ELSE {})

\* a ^ b
Xor(a, b) == (a \ b) \cup (b \ a)

\* a + b, by carry propagation
RECURSIVE Add(_, _)
Add(a, b) == IF b = {} THEN a ELSE Add(Xor(a, b), Shl(a \cap b, 1))

\* -a
Neg(a) == Add(Bit \ a, {0})

\* abs(a)
Abs(a) == IF IsNeg(a) THEN Neg(a) ELSE a

\* The value of a non-negative bit set below 2^31.
RECURSIVE ToNat(_)
ToNat(a) ==
    IF a = {} THEN 0
    ELSE LET i == CHOOSE j \in a : \A k \in a : k <= j
         IN  (2 ^ i) + ToNat(a \ {i})

\* 2^k
Pow2(k) == {k}

\* 2^k - 1
Ones(k) == 0 .. (k - 1)

\* hi * 2^24 + lo, for writing integers above 2^31
Big(hi, lo) == Add(Shl(FromNat(hi), 24), FromNat(lo))

\* Bits lo .. lo+width-1 of a, as a number
Field(a, lo, width) == ToNat({ i - lo : i \in { j \in a : j >= lo /\ j < lo + width } })

\* ------------------------------------------------------------------------
\* GameSeed (src/adventure/rng.py)
\* ------------------------------------------------------------------------

TIMESTAMP_SHIFT == 38

HP_SHIFT == TIMESTAMP_SHIFT - 1

MIN_STAT_SHIFT == HP_SHIFT - 14

MAX_STAT_SHIFT == MIN_STAT_SHIFT - 14

\* The largest stat value max_stat() lets through.
STAT_CAP == 16383

\* A StatRange is [stat_type, min_stat, max_stat, win_percent].  win_percent
\* is a float in the program; the model counts it in thirds of a percent
\* (w stands for w/300), which holds the whole percents (w a multiple of 3)
\* and values between them, and never lies halfway between two percents.
StatRange(t, lo, hi, w) ==
    [stat_type |-> t, min_stat |-> lo, max_stat |-> hi, win_percent |-> w]

\* GameSeed.__init__
GameSeed(id, stats) == [message_id |-> id, stat_range |-> stats]

\* A slip: int(x * 100), which rounds down.
RoundHundredDown(w) == w \div 3

\* round(x * 100) for x = w/300: the nearest integer to w/3.  The float
\* product is off by a few ulps at most and w/3 is never a tie.
RoundHundred(w) == ((2 * w) + 3) \div 6

\* A slip: k // 100, the integer quotient.
DivHundredWhole(k) == 300 * (k \div 100)

\* k / 100 as a win_percent: the float nearest to k/100, the one the literal
\* of that percent denotes.
DivHundred(k) == 3 * k

hp_or_diplo(gs) == IF gs.stat_range.stat_type = "hp" THEN 1 ELSE 0

min_stat(gs) == Max(gs.stat_range.min_stat, 0)

\* A slip: the low 14 bits instead of the cap.
max_stat_truncating(gs) == gs.stat_range.max_stat % (STAT_CAP + 1)

max_stat(gs) == Min(gs.stat_range.max_stat, STAT_CAP)

timestamp(gs) == Shr(gs.message_id, TIMESTAMP_SHIFT)

win_pct(gs) == gs.stat_range.win_percent

\* A slip: the whole message id kept, its low 38 bits not stripped.
GameSeedIntWholeId(gs) ==
    LET ret     == gs.message_id
        hp      == Shl(FromInt(hp_or_diplo(gs)), HP_SHIFT)
        min_s   == Shl(FromInt(min_stat(gs)), MIN_STAT_SHIFT)
        max_s   == Shl(FromInt(max_stat(gs)), MAX_STAT_SHIFT)
        win_int == FromInt(RoundHundred(win_pct(gs)))
    IN  Add(ret, Add(Add(Add(hp, min_s), max_s), win_int))

\* GameSeed.__int__
GameSeedInt(gs) ==
    LET ret     == Shl(timestamp(gs), TIMESTAMP_SHIFT)
        hp      == Shl(FromInt(hp_or_diplo(gs)), HP_SHIFT)
        min_s   == Shl(FromInt(min_stat(gs)), MIN_STAT_SHIFT)
        max_s   == Shl(FromInt(max_stat(gs)), MAX_STAT_SHIFT)
        win_int == FromInt(RoundHundred(win_pct(gs)))
    IN  Add(ret, Add(Add(Add(hp, min_s), max_s), win_int))

\* A decoder with one of the three strips left out: keep = "hp" forgets
\* number ^= hp_or_diplo << HP_SHIFT, "min" forgets the min_stat strip and
\* "max" the max_stat strip.
from_int_without(number, keep) ==
    LET id0   == Shr(number, TIMESTAMP_SHIFT)
        n1    == Xor(number, Shl(id0, TIMESTAMP_SHIFT))
        id    == Shl(id0, TIMESTAMP_SHIFT)
        hp    == Shr(n1, HP_SHIFT)
        n2    == IF keep = "hp" THEN n1 ELSE Xor(n1, Shl(hp, HP_SHIFT))
        lo    == Shr(n2, MIN_STAT_SHIFT)
        n3    == IF keep = "min" THEN n2 ELSE Xor(n2, Shl(lo, MIN_STAT_SHIFT))
        hi    == Shr(n3, MAX_STAT_SHIFT)
        n4    == IF keep = "max" THEN n3 ELSE Xor(n3, Shl(hi, MAX_STAT_SHIFT))
        stype == IF hp # {} THEN "hp" ELSE "dipl"
    IN  GameSeed(id, StatRange(stype, ToNat(lo), ToNat(hi), DivHundred(ToNat(n4))))

\* A slip: the message id left as number >> 38, not shifted back up.
from_int_unshifted(number) ==
    LET g == from_int_without(number, "none")
    IN  GameSeed(Shr(g.message_id, TIMESTAMP_SHIFT), g.stat_range)

from_int_keeps_hp(number) == from_int_without(number, "hp")

from_int_keeps_min(number) == from_int_without(number, "min")

from_int_keeps_max(number) == from_int_without(number, "max")

\* GameSeed.from_int
from_int(number) ==
    LET id0   == Shr(number, TIMESTAMP_SHIFT)
        n1    == Xor(number, Shl(id0, TIMESTAMP_SHIFT))
        id    == Shl(id0, TIMESTAMP_SHIFT)
        hp    == Shr(n1, HP_SHIFT)
        n2    == Xor(n1, Shl(hp, HP_SHIFT))
        lo    == Shr(n2, MIN_STAT_SHIFT)
        n3    == Xor(n2, Shl(lo, MIN_STAT_SHIFT))
        hi    == Shr(n3, MAX_STAT_SHIFT)
        n4    == Xor(n3, Shl(hi, MAX_STAT_SHIFT))
        stype == IF hp # {} THEN "hp" ELSE "dipl"
    IN  GameSeed(id, StatRange(stype, ToNat(lo), ToNat(hi), DivHundred(ToNat(n4))))

\* ------------------------------------------------------------------------
\* Random (src/adventure/rng.py), a subclass of the standard generator
\* ------------------------------------------------------------------------

\* The standard generator (a Mersenne Twister) is outside the repository.
\* The model keeps what the program relies on and no more: the state is a
\* function of abs(seed), every output word advances the state, and an
\* output is a function of the state.  The stand-in is a full-period
\* congruential generator on 16 bits with 8-bit output words.

Genrand(s) == ((s * 25173) + 13849) % 65536

Word(s) == s \div 256

\* random.Random.seed(n): the limbs of abs(n) are mixed into the state.
RECURSIVE SeedMix(_, _, _)
SeedMix(s, a, j) ==
    IF 16 * j >= IntBits THEN s
    ELSE SeedMix(Genrand((s + Field(a, 16 * j, 16)) % 65536), a, j + 1)

SeedState(n) == SeedMix(19650218 % 65536, Abs(n), 0)

\* A slip: only the integer value of the seed kept, as a seed rebuilt from it.
RandomInitKeepsInt(seed) ==
    [internal_seed |-> from_int(GameSeedInt(seed)), state |-> SeedState(GameSeedInt(seed))]

\* A slip: the generator seeded from the message id, not from int(seed).
RandomInitFromId(seed) == [internal_seed |-> seed, state |-> SeedState(seed.message_id)]

\* Random.__init__(seed): keeps the seed object, seeds from int(seed).
RandomInit(seed) == [internal_seed |-> seed, state |-> SeedState(GameSeedInt(seed))]

\* A call of the generator: its name and two integer arguments.
Op(name, a, b) == [name |-> name, a |-> a, b |-> b]

\* n.bit_length()
RECURSIVE BitLength(_)
BitLength(n) == IF n = 0 THEN 0 ELSE 1 + BitLength(n \div 2)

\* No exception.
NoError == "none"

\* No value: the results of the drawing calls are naturals.
NoValue == 0 - 1

\* What a call that raises leaves its caller with: no value, the exception,
\* and the generator where it was.
Raise(s, e) == [val |-> NoValue, state |-> s, err |-> e]

\* getrandbits(k), k in 1..8: the top k bits of the next word.
GetRandBits(s, k) ==
    LET t == Genrand(s)
    IN  [val |-> Word(t) \div (2 ^ (8 - k)), state |-> t, err |-> NoError]

\* _randbelow(n): draw bit_length(n) bits until the draw is below n.
RECURSIVE RandBelowLoop(_, _, _)
RandBelowLoop(s, n, k) ==
    LET r == GetRandBits(s, k)
    IN  IF r.val < n THEN r ELSE RandBelowLoop(r.state, n, k)

RandBelow(s, n) == RandBelowLoop(s, n, BitLength(n))

\* A slip: inverted bounds put in order instead of refused.
RandIntSwapping(s, a, b) ==
    LET lo == Min(a, b)
        hi == Max(a, b)
        r  == RandBelow(s, (hi - lo) + 1)
    IN  [val |-> lo + r.val, state |-> r.state, err |-> NoError]

\* randint(a, b) = randrange(a, b + 1) = a + _randbelow(b - a + 1); an
\* empty range is a ValueError.
RandInt(s, a, b) ==
    IF (b - a) + 1 <= 0 THEN Raise(s, "ValueError")
    ELSE LET r == RandBelow(s, (b - a) + 1)
         IN  [val |-> a + r.val, state |-> r.state, err |-> NoError]

\* choice(seq) = seq[_randbelow(len(seq))]; the value is the position
\* chosen, and an empty seq is an IndexError.
Choice(s, n) ==
    IF n = 0 THEN Raise(s, "IndexError")
    ELSE LET r == RandBelow(s, n)
         IN  [val |-> r.val + 1, state |-> r.state, err |-> NoError]

\* The result and the next state of one drawing call.
Draw(s, op) ==
    CASE op.name = "getrandbits" -> GetRandBits(s, op.a)
      [] op.name = "randint"     -> RandInt(s, op.a, op.b)
      [] op.name = "choice"      -> Choice(s, op.a)

\* getstate(): the state object handed to the caller.
GetState(r) == r.state

\* A slip: a setstate that lands one word further on.
SetStateAhead(r, st) == [r EXCEPT !.state = GetRandBits(st, 1).state]

\* A slip: a setstate that restores nothing.
SetStateIgnored(r, st) == r

\* setstate(st): the generator continues from st.
SetState(r, st) == [r EXCEPT !.state = st]

\* ------------------------------------------------------------------------
\* State
\* ------------------------------------------------------------------------

VARIABLES
    encounter,  \* the GameSeed the game built for the running adventure
    rival,      \* the GameSeed of the adventure of a second guild, or NoSeed
    number,     \* the integer given to the adventureseed command, or NoInt
    gameseed,   \* the GameSeed that command decoded with from_int, or NoSeed
    rng,        \* per owner, its Random object, or NoRng before construction
    hist,       \* per owner, the calls made on its generator with their results
    snap,       \* per owner, the state object its caller holds, or NoState
    lists,      \* per session and action, the list of the users who chose it
    last_update,\* per session and action, the count its button label shows
    flight,     \* the button interactions under way, each with its stage
    pressed,    \* the number of button presses so far
    restrict,   \* the restrict setting of the cog
    balance,    \* the bank balance of the cart's customer
    backpack,   \* the customer's saved character sheet: cart items owned
    cart_open,  \* the cart's end_time is still ahead
    receipt,    \* how the last purchase form ended
    submits,    \* the number of purchase forms submitted so far
    forms,      \* the number of purchase forms sent and not submitted yet
    stopped,    \* the cart's view was stopped
    now,        \* time.time(), in seconds
    sheet,      \* per user, the saved character: class, ability flag, cooldown
    held,       \* per user, the path that holds the user's lock, or "free"
    jobs,       \* per user and path, the special action under way
    insight,    \* the session's insight: the best roll and whose it is
    exposed,    \* the session's monster is exposed
    used,       \* per user, the times of the activations that succeeded
    wealth,     \* the bank balance of the hero at the desk
    hero,       \* that hero's saved character: level, rebirths, class
    office,     \* the rebirth or heroclass command under way for the hero
    asked,      \* the number of such commands so far
    report      \* what the adventureseed command found for its embed, or NoReport

\* The adventure sessions and their buttons.
play == <<lists, last_update, flight, pressed, restrict>>

\* The cart and its customer.
trade == <<balance, backpack, cart_open, receipt, submits, forms, stopped>>

\* The seeds and the generators.
seedvars == <<encounter, rival, number, gameseed, rng, hist, snap>>

\* The class abilities of the heroes.
skill == <<now, sheet, held, jobs, insight, exposed, used>>

\* The commands that ask the hero to confirm: rebirth and heroclass.
desk == <<wealth, hero, office, asked>>

\* The heroes' affairs outside the adventure's buttons and the cart.
hall == <<skill, desk, report>>

vars == <<seedvars, play, trade, hall>>

\* The state the operations on the first adventure's seed leave alone.
others == <<rival, play, trade, hall>>

\* No integer: a set that is the bit set of none.
NoInt == {0 - 1}

NoSeed == [none |-> TRUE]

NoRng == [none |-> TRUE]

\* No state object: generator states are naturals.
NoState == 0 - 1

\* The owners of a generator: the adventure, the adventure of the second
\* guild and the audit command.
Owners == {"game", "rival", "audit"}

\* ------------------------------------------------------------------------
\* Inputs
\* ------------------------------------------------------------------------

\* The most calls made on the generators in one run.
MaxCalls == 4

\* 123456789012345, the identifier of the documented example
ExampleId == Big(7358598, 909177)

\* 1100000000000000000, an identifier of snowflake size
SnowflakeId == Shl(Big(4001776, 0), 14)

EventIds ==
    { {}, FromNat(1), Ones(TIMESTAMP_SHIFT),
      Pow2(TIMESTAMP_SHIFT), ExampleId, SnowflakeId }

\* Stat bounds: negative, in range, at the cap and above it.
MinStats == {0 - 5, 0, 10, STAT_CAP, STAT_CAP + 1, 40000}

MaxStats == {0 - 5, 0, 500, STAT_CAP, STAT_CAP + 1, 50000}

\* win_percent in thirds of a percent: 0, 1/300, 0.5, 2/3, 0.73, 1.
WinPercents == {0, 1, 150, 200, 219, 300}

CodecSeeds ==
    { GameSeed(id, StatRange(t, lo, hi, w)) :
        id \in EventIds, t \in {"hp", "dipl"},
        lo \in MinStats, hi \in MaxStats, w \in WinPercents }

\* The adventures of the runs that also draw from the generators.
Encounters ==
    { GameSeed(ExampleId, StatRange("hp", 10, 500, 219)),
      GameSeed(SnowflakeId, StatRange("dipl", 0, STAT_CAP, 200)),
      GameSeed(FromNat(1), StatRange("hp", 0, 0, 1)) }

\* Integers an operator may type that no encounter produced.
TypedSeeds ==
    { {}, FromNat(511), Ones(HP_SHIFT), Add(ExampleId, FromNat(7)) }

\* The one of them typed in the runs that also draw from the generators.
AuditSeeds == { Add(ExampleId, FromNat(7)) }

\* The adventures of the runs of two guilds: event ids on both sides of a
\* timestamp step, stats in range and out of range.
PairIds == { {}, FromNat(1), Ones(TIMESTAMP_SHIFT), Pow2(TIMESTAMP_SHIFT), ExampleId }

PairStats ==
    { StatRange("hp", 10, 500, 219), StatRange("dipl", 0, 0, 0),
      StatRange("hp", 40000, 0, 0), StatRange("dipl", 0, 0 - 5, 300) }

PairSeeds == { GameSeed(id, sr) : id \in PairIds, sr \in PairStats }

\* The sessions of the two guilds; each owns the generator of its name.
Sessions == {"game", "rival"}

\* Action: the five buttons of a session, each with a list of its name.
Actions == {"fight", "talk", "pray", "magic", "run"}

Users == {"ann", "bob"}

\* The presses of the runs: both users press any of the five buttons of
\* the first session; ann, a member of both guilds, also presses fight and
\* run on the second session's message.
Presses ==
    { b \in [user : Users, session : Sessions, action : Actions] :
        b.session = "rival" => (b.user = "ann" /\ b.action \in {"fight", "run"}) }

\* The most button presses in one run.
MaxPresses == 3

\* The adventures of the two sessions.
FirstEncounter == GameSeed(ExampleId, StatRange("hp", 10, 500, 219))

SecondEncounter == GameSeed(SnowflakeId, StatRange("dipl", 0, STAT_CAP, 200))

\* The number of responses choice() picks from in send_response.
ResponseCount == 5

\* What a customer types in the amount field of the purchase form.
AmountInputs == {"", "abc", "-1", "0", "1", "2"}

\* The price of one item of the cart.
ItemPrice == 100

\* The customer's balance when the cart arrives.
Balances == {0, 150, 300}

\* The most purchase forms submitted in one run.
MaxSubmits == 3

\* The calls the game and the audit command make on a generator.
DrawOps == { Op("getrandbits", 1, 0), Op("randint", 0, 100), Op("choice", 5, 0) }

\* Calls with arguments no draw can satisfy: a choice from an empty
\* sequence, randint over an empty range and over an inverted one.
BadOps == { Op("choice", 0, 0), Op("randint", 1, 0), Op("randint", 5, 1) }

GetStateOp == Op("getstate", 0, 0)

SetStateOp == Op("setstate", 0, 0)

\* ------------------------------------------------------------------------
\* Operations
\* ------------------------------------------------------------------------

Start(seeds) ==
    /\ encounter \in seeds
    /\ rival = NoSeed
    /\ number = NoInt
    /\ gameseed = NoSeed
    /\ rng = [o \in Owners |-> NoRng]
    /\ hist = [o \in Owners |-> <<>>]
    /\ snap = [o \in Owners |-> NoState]

\* GameSession.__init__: five empty lists, labels without a count.
NewSession == [a \in Actions |-> <<>>]

NoLabels == [a \in Actions |-> 0]

\* No button is pressed in the run.
NoPlay ==
    /\ lists = [s \in Sessions |-> NewSession]
    /\ last_update = [s \in Sessions |-> NoLabels]
    /\ flight = {}
    /\ pressed = 0
    /\ restrict = FALSE

\* No cart comes by in the run.
NoTrade ==
    /\ balance = 0
    /\ backpack = 0
    /\ cart_open = FALSE
    /\ receipt = "none"
    /\ submits = 0
    /\ forms = 0
    /\ stopped = FALSE

\* The hero classes with a special action.
Classes == {"cleric", "psychic", "berserker", "wizard", "bard"}

\* The two ways to a special action: the button of the adventure's
\* message, and the chat command of the class.
Paths == {"button", "command"}

\* The special actions asked for: ann by button and by command, bob by
\* button.
Attempts == {<<"ann", "button">>, <<"ann", "command">>, <<"bob", "button">>}

\* time.time() when the run begins, far beyond any cooldown_time.
StartTime == 2000

\* The seconds between two readings of the clock that differ.
TickLength == 150

\* The clock is followed for this many ticks.
MaxTicks == 2

\* c.rebirths of each hero.
Rebirths == [u \in Users |-> IF u = "ann" THEN 2 ELSE 16]

\* c.luck plus the total of the stat the hero's class counts.
StatSums == [u \in Users |-> IF u = "ann" THEN 400 ELSE 0 - 20]

\* No "cooldown" key in c.heroclass.
NoCooldown == 0 - 1

\* No roll made.
NoRoll == 0 - 1000

NoSheet == [none |-> TRUE]

\* A special action not asked for yet.
IdleJob == [pc |-> "idle", c |-> NoSheet, reply |-> "none", roll |-> NoRoll]

\* Nobody uses a special action in the run.
NoSkill ==
    /\ now = StartTime
    /\ sheet = [u \in Users |-> [hc |-> "cleric", ability |-> FALSE, cooldown |-> NoCooldown]]
    /\ held = [u \in Users |-> "free"]
    /\ jobs = [u \in Users |-> [p \in Paths |-> IdleJob]]
    /\ insight = [roll |-> 0, by |-> "nobody"]
    /\ exposed = FALSE
    /\ used = [u \in Users |-> <<>>]

\* c.maxlevel
MaxLevel == 20

\* The level a hero needs to choose a class.
ClassLevel == 10

\* The rebirth_cost setting, a percentage.
RebirthCosts == {50, 100}

\* The balances of the hero at the desk.
Funds == {0, 600, 3000, 50000}

\* c.last_known_currency
KnownCurrencies == {0, 1000, 100000}

\* The user who runs the commands, the author of their prompts.
Author == "ann"

\* The classes the hero asks for.
Wanted == {"cleric", "psychic", "bard"}

\* The rebirth and heroclass commands of a run.
MaxCommands == 2

\* No command under way: the user's lock is free.
NoOffice ==
    [cmd |-> "none", pc |-> "idle", bal |-> 0, cost |-> 0, lvl |-> 0,
     c |-> NoSheet, clz |-> "none", was |-> "none", answer |-> "none",
     reply |-> "none"]

\* No hero comes to the desk in the run.
NoDesk ==
    /\ wealth = 0
    /\ hero = [lvl |-> 1, rebirths |-> 0, hc |-> "hero"]
    /\ office = NoOffice
    /\ asked = 0

NoReport == [none |-> TRUE]

NoHall == NoSkill /\ NoDesk /\ report = NoReport

Init == Start(Encounters) /\ NoPlay /\ NoTrade /\ NoHall

InitCodec == Start(CodecSeeds) /\ NoPlay /\ NoTrade /\ NoHall

\* Two guilds, each with an adventure of its own.
StartTwo(seeds) ==
    /\ encounter \in seeds
    /\ rival \in seeds
    /\ number = NoInt
    /\ gameseed = NoSeed
    /\ rng = [o \in Owners |-> NoRng]
    /\ hist = [o \in Owners |-> <<>>]
    /\ snap = [o \in Owners |-> NoState]

InitPair == StartTwo(PairSeeds) /\ NoPlay /\ NoTrade /\ NoHall

InitDuel == StartTwo(Encounters) /\ NoPlay /\ NoTrade /\ NoHall

\* Two guilds with an adventure under way each, no button pressed yet; the
\* restrict setting is on or off.
InitPlay ==
    /\ encounter = FirstEncounter
    /\ rival = SecondEncounter
    /\ number = NoInt
    /\ gameseed = NoSeed
    /\ rng = [o \in Owners |->
                IF o = "game" THEN RandomInit(encounter)
                ELSE IF o = "rival" THEN RandomInit(rival)
                ELSE NoRng]
    /\ hist = [o \in Owners |-> <<>>]
    /\ snap = [o \in Owners |-> NoState]
    /\ lists = [s \in Sessions |-> NewSession]
    /\ last_update = [s \in Sessions |-> NoLabels]
    /\ flight = {}
    /\ pressed = 0
    /\ restrict \in BOOLEAN
    /\ NoTrade
    /\ NoHall

\* An adventure under way with both heroes in its fight list: ann of any
\* class with a special action, with no cooldown stored or one still
\* ahead, and bob a psychic.
InitSkill ==
    /\ encounter = FirstEncounter
    /\ rival = NoSeed
    /\ number = NoInt
    /\ gameseed = NoSeed
    /\ rng = [o \in Owners |-> IF o = "game" THEN RandomInit(encounter) ELSE NoRng]
    /\ hist = [o \in Owners |-> <<>>]
    /\ snap = [o \in Owners |-> NoState]
    /\ lists = [s \in Sessions |->
                  IF s = "game" THEN [NewSession EXCEPT !["fight"] = <<"ann", "bob">>]
                  ELSE NewSession]
    /\ last_update = [s \in Sessions |-> NoLabels]
    /\ flight = {}
    /\ pressed = 0
    /\ restrict = FALSE
    /\ NoTrade
    /\ now = StartTime
    /\ \E hc \in Classes, cd \in {NoCooldown, StartTime + TickLength} :
          sheet = [u \in Users |->
                     IF u = "ann" THEN [hc |-> hc, ability |-> FALSE, cooldown |-> cd]
                     ELSE [hc |-> "psychic", ability |-> FALSE, cooldown |-> NoCooldown]]
    /\ held = [u \in Users |-> "free"]
    /\ jobs = [u \in Users |-> [p \in Paths |-> IdleJob]]
    /\ insight = [roll |-> 0, by |-> "nobody"]
    /\ exposed = FALSE
    /\ used = [u \in Users |-> <<>>]
    /\ NoDesk
    /\ report = NoReport

\* A hero outside any adventure, of some level, rebirths, class and balance.
InitDesk ==
    /\ Start({FirstEncounter})
    /\ NoPlay
    /\ NoTrade
    /\ NoSkill
    /\ wealth \in Funds
    /\ hero \in [lvl : {1, ClassLevel, MaxLevel}, rebirths : {1, 20}, hc : {"bard", "ranger"}]
    /\ office = NoOffice
    /\ asked = 0
    /\ report = NoReport

\* A cart has arrived for a customer with some balance and no cart item.
InitCart ==
    /\ Start({FirstEncounter})
    /\ NoPlay
    /\ NoHall
    /\ balance \in Balances
    /\ backpack = 0
    /\ cart_open = TRUE
    /\ receipt = "none"
    /\ submits = 0
    /\ forms = 0
    /\ stopped = FALSE

\* The game starts the adventure: rng = Random(GameSeed(message_id, stats)).
StartAdventure ==
    /\ rng["game"] = NoRng
    /\ rng' = [rng EXCEPT !["game"] = RandomInit(encounter)]
    /\ UNCHANGED others
    /\ UNCHANGED <<encounter, number, gameseed, hist, snap>>

\* The game starts the adventure of the second guild.
StartRival ==
    /\ rival # NoSeed
    /\ rng["rival"] = NoRng
    /\ rng' = [rng EXCEPT !["rival"] = RandomInit(rival)]
    /\ UNCHANGED others
    /\ UNCHANGED <<encounter, number, gameseed, hist, snap>>

\* adventurestats shows hex(adventure.rng.internal_seed), the integer an
\* operator later hands to adventureseed.
ShowSeed ==
    /\ rng["game"] # NoRng
    /\ number = NoInt
    /\ number' = GameSeedInt(rng["game"].internal_seed)
    /\ UNCHANGED others
    /\ UNCHANGED <<encounter, gameseed, rng, hist, snap>>

\* The operator types some other integer.
TypeSeed(n) ==
    /\ number = NoInt
    /\ number' = n
    /\ UNCHANGED others
    /\ UNCHANGED <<encounter, gameseed, rng, hist, snap>>

\* adventureseed: gameseed = GameSeed.from_int(int(seed)); rng = Random(gameseed).
AdventureSeed ==
    /\ number # NoInt
    /\ gameseed = NoSeed
    /\ gameseed' = from_int(number)
    /\ rng' = [rng EXCEPT !["audit"] = RandomInit(gameseed')]
    /\ UNCHANGED others
    /\ UNCHANGED <<encounter, number, hist, snap>>

Calls == Len(hist["game"]) + Len(hist["rival"]) + Len(hist["audit"])

\* A slip: one generator behind every instance, as with the functions of
\* the random module.
DrawCallShared(o, op) ==
    /\ rng[o] # NoRng
    /\ Calls < MaxCalls
    /\ LET r == Draw(rng[o].state, op)
       IN  /\ rng' = [p \in Owners |->
                        IF rng[p] = NoRng THEN NoRng
                        ELSE [rng[p] EXCEPT !.state = r.state]]
           /\ hist' = [hist EXCEPT ![o] =
                            Append(@, [op |-> op, val |-> r.val, err |-> r.err])]
    /\ UNCHANGED others
    /\ UNCHANGED <<encounter, number, gameseed, snap>>

\* A drawing call on o's generator.
DrawCall(o, op) ==
    /\ rng[o] # NoRng
    /\ Calls < MaxCalls
    /\ LET r == Draw(rng[o].state, op)
       IN  /\ rng' = [rng EXCEPT ![o].state = r.state]
           /\ hist' = [hist EXCEPT ![o] =
                            Append(@, [op |-> op, val |-> r.val, err |-> r.err])]
    /\ UNCHANGED others
    /\ UNCHANGED <<encounter, number, gameseed, snap>>

\* state = rng.getstate()
GetStateCall(o) ==
    /\ rng[o] # NoRng
    /\ Calls < MaxCalls
    /\ snap' = [snap EXCEPT ![o] = GetState(rng[o])]
    /\ hist' = [hist EXCEPT ![o] =
                    Append(@, [op |-> GetStateOp, val |-> GetState(rng[o]), err |-> NoError])]
    /\ UNCHANGED others
    /\ UNCHANGED <<encounter, number, gameseed, rng>>

\* rng.setstate(state)
SetStateCall(o) ==
    /\ rng[o] # NoRng
    /\ snap[o] # NoState
    /\ Calls < MaxCalls
    /\ rng' = [rng EXCEPT ![o] = SetState(@, snap[o])]
    /\ hist' = [hist EXCEPT ![o] =
                    Append(@, [op |-> SetStateOp, val |-> 0, err |-> NoError])]
    /\ UNCHANGED others
    /\ UNCHANGED <<encounter, number, gameseed, snap>>

\* The end of the adventureseed command's draws: the state is captured,
\* the easy-mode bit and the roll for heroes under 30 rebirths are drawn,
\* the state is put back and the no-monster roll drawn.
SeedReport ==
    /\ rng["audit"] # NoRng
    /\ report = NoReport
    /\ LET state         == GetState(rng["audit"])
           easy_mode     == Draw(rng["audit"].state, Op("getrandbits", 1, 0))
           no_monster_30 == Draw(easy_mode.state, Op("randint", 0, 100))
           restored      == SetState([rng["audit"] EXCEPT !.state = no_monster_30.state],
                                     state)
           no_monster    == Draw(restored.state, Op("randint", 0, 100))
       IN  /\ snap' = [snap EXCEPT !["audit"] = state]
           /\ rng' = [rng EXCEPT !["audit"] = [restored EXCEPT !.state = no_monster.state]]
           /\ report' = [easy_mode     |-> easy_mode.val = 1,
                         no_monster_30 |-> no_monster_30.val = 25,
                         no_monster    |-> no_monster.val = 25]
    /\ UNCHANGED <<encounter, rival, number, gameseed, hist>>
    /\ UNCHANGED <<play, trade, skill, desk>>

\* user in list
Has(q, u) == \E i \in 1 .. Len(q) : q[i] = u

\* list.remove(user): the list without the first occurrence of user.
RECURSIVE Without(_, _)
Without(q, u) ==
    IF q = <<>> THEN <<>>
    ELSE IF Head(q) = u THEN Tail(q)
    ELSE <<Head(q)>> \o Without(Tail(q), u)

\* GameSession.in_adventure(user): user is in one of the five lists.
in_adventure(view, user) == \E a \in Actions : Has(view[a], user)

\* A slip: the user added to the pressed action's list and left in the
\* list of the action chosen before.
PressedKeepsOthers(view, action, user) ==
    IF ~Has(view[action], user)
        THEN [view EXCEPT ![action] = Append(@, user)]
    ELSE view

\* The lists of a session after ActionButton.callback of action for user:
\* user is removed from the lists of the other actions and, when not in
\* the list of action, appended to it.
Pressed(view, action, user) ==
    LET cleared == [a \in Actions |->
                        IF a # action /\ Has(view[a], user)
                            THEN Without(view[a], user)
                        ELSE view[a]]
    IN  IF ~Has(cleared[action], user)
            THEN [cleared EXCEPT ![action] = Append(@, user)]
        ELSE cleared

\* A user presses the button of action a on the message of session s.
Press(u, s, a) ==
    /\ rng[s] # NoRng
    /\ pressed < MaxPresses
    /\ pressed' = pressed + 1
    /\ flight' = flight \cup {[user |-> u, session |-> s, action |-> a, stage |-> "check"]}
    /\ UNCHANGED <<lists, last_update, restrict>>
    /\ UNCHANGED <<seedvars, trade, hall>>

\* GameSession.interaction_check: refused without funds, and, with the
\* restrict setting on, refused when the user is in a list of another
\* session; when allowed, the button's callback is next.
InteractionCheck(i, has_fund) ==
    /\ i \in flight
    /\ i.stage = "check"
    /\ LET in_adv == \E s \in Sessions \ {i.session} :
                        rng[s] # NoRng /\ in_adventure(lists[s], i.user)
           allow  == IF ~has_fund THEN FALSE
                     ELSE IF restrict THEN ~in_adv
                     ELSE TRUE
       IN  flight' = (flight \ {i})
                        \cup (IF allow THEN {[i EXCEPT !.stage = "callback"]} ELSE {})
    /\ UNCHANGED <<lists, last_update, pressed, restrict>>
    /\ UNCHANGED <<seedvars, trade, hall>>

\* ActionButton.callback: the lists are brought up to date; a user who
\* was appended gets a response drawn with the session's rng.choice and the
\* labels are updated, unless the character sheet fails to load, which
\* ends the callback with the lists as they are by then.
Callback(i, sheet_ok) ==
    /\ i \in flight
    /\ i.stage = "callback"
    /\ LET s     == i.session
           view  == Pressed(lists[s], i.action, i.user)
           joins == ~Has(lists[s][i.action], i.user)
           r     == Draw(rng[s].state, Op("choice", ResponseCount, 0))
       IN  /\ lists' = [lists EXCEPT ![s] = view]
           /\ IF joins /\ sheet_ok
                  THEN /\ rng' = [rng EXCEPT ![s].state = r.state]
                       /\ hist' = [hist EXCEPT ![s] =
                                        Append(@, [op  |-> Op("choice", ResponseCount, 0),
                                                   val |-> r.val, err |-> r.err])]
                       /\ last_update' = [last_update EXCEPT ![s] =
                                            [a \in Actions |-> Len(view[a])]]
              ELSE UNCHANGED <<rng, hist, last_update>>
    /\ flight' = flight \ {i}
    /\ UNCHANGED <<pressed, restrict>>
    /\ UNCHANGED <<encounter, rival, number, gameseed, snap>>
    /\ UNCHANGED <<trade, hall>>

\* No cart ever leaves.
ExpiredNever == FALSE

\* datetime.now(timezone.utc) >= self.view.end_time
Expired == ~cart_open

\* TraderButton.callback and TraderSelect.callback: past the end_time the
\* view is stopped and the user told that the cart has moved on; before it
\* the purchase form is sent. A stopped view takes no interaction.
Choose(widget) ==
    /\ ~stopped
    /\ forms + submits < MaxSubmits
    /\ IF Expired
          THEN stopped' = TRUE /\ receipt' = "left" /\ UNCHANGED forms
       ELSE forms' = forms + 1 /\ receipt' = "form" /\ UNCHANGED stopped
    /\ UNCHANGED <<balance, backpack, cart_open, submits>>
    /\ UNCHANGED <<seedvars, play, hall>>

\* The amounts int() accepts; any other text is a ValueError.
IsInt(text) == text \in {"-1", "0", "1", "2"}

\* int(text)
IntOf(text) ==
    CASE text = "-1" -> 0 - 1
      [] text = "0"  -> 0
      [] text = "1"  -> 1
      [] text = "2"  -> 2

\* TraderModal.on_submit: the form is turned away, and the view stopped,
\* when the cart has left; it is turned away when the amount is no number
\* >= 0; a customer who can spend the price has it withdrawn, and then the
\* character sheet is loaded (which may fail), a full backpack ends the
\* purchase, and otherwise the item is added and the sheet saved.
OnSubmit(text, sheet_ok, full) ==
    /\ forms > 0
    /\ forms' = forms - 1
    /\ submits' = submits + 1
    /\ stopped' = (stopped \/ Expired)
    /\ IF Expired
          THEN receipt' = "left" /\ UNCHANGED <<balance, backpack>>
       ELSE IF text = "" \/ ~IsInt(text)
          THEN receipt' = "wasting" /\ UNCHANGED <<balance, backpack>>
       ELSE IF IntOf(text) < 0
          THEN receipt' = "wasting" /\ UNCHANGED <<balance, backpack>>
       ELSE LET amount == IntOf(text)
                price  == ItemPrice * amount
            IN  IF balance >= price
                   THEN /\ balance' = balance - price
                        /\ IF ~sheet_ok
                              THEN receipt' = "sheet_error" /\ UNCHANGED backpack
                           ELSE IF full
                              THEN receipt' = "full" /\ UNCHANGED backpack
                           ELSE /\ backpack' = backpack + amount
                                /\ receipt' = "bought"
                ELSE receipt' = "poor" /\ UNCHANGED <<balance, backpack>>
    /\ UNCHANGED cart_open
    /\ UNCHANGED <<seedvars, play, hall>>

\* The clock reaches the cart's end_time.
CartLeaves ==
    /\ cart_open
    /\ cart_open' = FALSE
    /\ UNCHANGED <<balance, backpack, receipt, submits, forms, stopped>>
    /\ UNCHANGED <<seedvars, play, hall>>

\* max(300, (base - max((c.luck + c.total_x) * 2, 0))), the base being 900
\* for the psychic's insight and 1200 for the other abilities.
cooldown_time(hc, stats) ==
    LET base == IF hc = "psychic" THEN 900 ELSE 1200
    IN  Max(300, base - Max(stats * 2, 0))

\* 100 if c.rebirths >= 30 else 50 if c.rebirths >= 15 else 20
max_roll(rebirths) ==
    IF rebirths >= 30 THEN 100 ELSE IF rebirths >= 15 THEN 50 ELSE 20

\* min(c.rebirths - 25 // 2, (max_roll // 2)), the lower end of the roll
low_roll(rebirths) == Min(rebirths - (25 \div 2), max_roll(rebirths) \div 2)

\* randint(...) / max_roll, in hundredths: max_roll divides 100, and two
\* such quotients compare as floats as they do as fractions.
Hundredths(k, rebirths) == k * (100 \div max_roll(rebirths))

\* The insight taken from every roll, better or not.
DiscoverAlways(found, roll, user) == [roll |-> roll, by |-> user]

\* if insight[0] < roll: insight = roll, c
Discover(found, roll, user) ==
    IF found.roll < roll THEN [roll |-> roll, by |-> user] ELSE found

\* The cooldown the test reads: a sheet without the key gets
\* cooldown_time + 1 first.
StoredCooldown(c, cd) == IF c.cooldown = NoCooldown THEN cd + 1 ELSE c.cooldown

\* c.heroclass["ability"] = True; c.heroclass["cooldown"] = time.time() + cooldown_time
Activated(c, cd) == [c EXCEPT !.ability = TRUE, !.cooldown = now + cd]

\* The exposures of send_insight and of the insight command: a roll above
\* one half that is the session's best exposes the monster.
Exposes(good, roll) == good /\ roll > 50

\* A special action that takes the user's lock on its way in: the button
\* for any class (SpecialActionButton.callback) and the commands bless,
\* rage, focus and music. The button turns away a user who is in no list;
\* a sheet that fails to load ends it.
Enter(u, p, sheet_ok) ==
    /\ jobs[u][p].pc = "idle"
    /\ p = "button" \/ sheet[u].hc # "psychic"
    /\ IF p = "button" /\ ~in_adventure(lists["game"], u)
          THEN /\ jobs' = [jobs EXCEPT ![u][p] =
                              [IdleJob EXCEPT !.pc = "done", !.reply = "not_in_adventure"]]
               /\ UNCHANGED held
       ELSE /\ held[u] = "free"
            /\ IF sheet_ok
                  THEN /\ held' = [held EXCEPT ![u] = p]
                       /\ jobs' = [jobs EXCEPT ![u][p] =
                                      [IdleJob EXCEPT !.pc = "locked", !.c = sheet[u]]]
               ELSE /\ jobs' = [jobs EXCEPT ![u][p] =
                                   [IdleJob EXCEPT !.pc = "done", !.reply = "error"]]
                    /\ UNCHANGED held
    /\ UNCHANGED <<now, sheet, insight, exposed, used>>
    /\ UNCHANGED <<seedvars, play, trade, desk, report>>

\* send_cleric, send_insight, send_rage, send_focus, send_music and the
\* bodies of bless, rage, focus and music, with the lock held: an ability
\* in use or a cooldown still ahead is a refusal; otherwise the ability is
\* set with its new cooldown and the sheet saved. The psychic's button
\* rolls with the session's rng.randint and keeps the roll when it beats
\* the session's insight.
Act(u, p) ==
    /\ jobs[u][p].pc = "locked"
    /\ held' = [held EXCEPT ![u] = "free"]
    /\ LET c    == jobs[u][p].c
           cd   == cooldown_time(c.hc, StatSums[u])
           op   == Op("randint", low_roll(Rebirths[u]), max_roll(Rebirths[u]))
           r    == Draw(rng["game"].state, op)
           roll == Hundredths(r.val, Rebirths[u])
           good == insight.roll < roll
       IN  IF c.ability
              THEN /\ jobs' = [jobs EXCEPT ![u][p] =
                                  [IdleJob EXCEPT !.pc = "done", !.reply = "in_use"]]
                   /\ UNCHANGED <<sheet, insight, exposed, used, rng, hist>>
           ELSE IF StoredCooldown(c, cd) > now
              THEN /\ jobs' = [jobs EXCEPT ![u][p] =
                                  [IdleJob EXCEPT !.pc = "done", !.reply = "cooldown"]]
                   /\ UNCHANGED <<sheet, insight, exposed, used, rng, hist>>
           ELSE /\ sheet' = [sheet EXCEPT ![u] = Activated(c, cd)]
                /\ used' = [used EXCEPT ![u] = Append(@, now)]
                /\ IF c.hc = "psychic"
                      THEN /\ rng' = [rng EXCEPT !["game"].state = r.state]
                           /\ hist' = [hist EXCEPT !["game"] =
                                          Append(@, [op |-> op, val |-> r.val, err |-> r.err])]
                           /\ insight' = Discover(insight, roll, u)
                           /\ exposed' = (exposed \/ Exposes(good, roll))
                           /\ jobs' = [jobs EXCEPT ![u][p] =
                                          [IdleJob EXCEPT !.pc = "done", !.roll = roll,
                                              !.reply = IF good THEN "focusing" ELSE "better"]]
                   ELSE /\ jobs' = [jobs EXCEPT ![u][p] =
                                       [IdleJob EXCEPT !.pc = "done", !.reply = "starting"]]
                        /\ UNCHANGED <<rng, hist, insight, exposed>>
    /\ UNCHANGED now
    /\ UNCHANGED <<encounter, rival, number, gameseed, snap>>
    /\ UNCHANGED <<play, trade, desk, report>>

\* The insight command up to its save: the sheet is loaded with no lock
\* held, and an adventure, a place in it, an ability not in use and a
\* cooldown not ahead lead to a roll of the module random's randint (any
\* value of its range), kept when it beats the session's insight; the
\* ability and its cooldown are set on the loaded character, which waits
\* for the lock to be saved.
InsightCommand(u, sheet_ok, k) ==
    /\ jobs[u]["command"].pc = "idle"
    /\ sheet[u].hc = "psychic"
    /\ LET c    == sheet[u]
           cd   == cooldown_time(c.hc, StatSums[u])
           roll == Hundredths(k, Rebirths[u])
           good == insight.roll < roll
           ends(reply) == /\ jobs' = [jobs EXCEPT ![u]["command"] =
                                         [IdleJob EXCEPT !.pc = "done", !.reply = reply]]
                          /\ UNCHANGED <<insight, used>>
       IN  IF ~sheet_ok THEN ends("error")
           ELSE IF rng["game"] = NoRng THEN ends("no_adventure")
           ELSE IF ~in_adventure(lists["game"], u) THEN ends("not_in_adventure")
           ELSE IF c.ability THEN ends("in_use")
           ELSE IF StoredCooldown(c, cd) > now THEN ends("cooldown")
           ELSE /\ insight' = Discover(insight, roll, u)
                /\ used' = [used EXCEPT ![u] = Append(@, now)]
                /\ jobs' = [jobs EXCEPT ![u]["command"] =
                               [pc |-> "rolled", c |-> Activated(c, cd), roll |-> roll,
                                reply |-> IF good THEN "focusing" ELSE "better"]]
    /\ UNCHANGED <<now, sheet, held, exposed>>
    /\ UNCHANGED <<seedvars, play, trade, desk, report>>

\* The end of the insight command: with the lock, the character it holds
\* is saved; a roll that was the best exposes the monster.
InsightSave(u) ==
    /\ jobs[u]["command"].pc = "rolled"
    /\ held[u] = "free"
    /\ sheet' = [sheet EXCEPT ![u] = jobs[u]["command"].c]
    /\ exposed' = (exposed \/ Exposes(jobs[u]["command"].reply = "focusing",
                                      jobs[u]["command"].roll))
    /\ jobs' = [jobs EXCEPT ![u]["command"].pc = "done", ![u]["command"].c = NoSheet]
    /\ UNCHANGED <<now, held, insight, used>>
    /\ UNCHANGED <<seedvars, play, trade, desk, report>>

\* The clock moves on.
Tick ==
    /\ now < StartTime + MaxTicks * TickLength
    /\ now' = now + TickLength
    /\ UNCHANGED <<sheet, held, jobs, insight, exposed, used>>
    /\ UNCHANGED <<seedvars, play, trade, desk, report>>

\* max(base_cost, int(max((bal - base_cost), 1) * (rebirth_cost / 100.0)))
\* with base_cost = 1000 * c.rebirths
RebirthPrice(bal, rebirths, rebirth_cost) ==
    LET base_cost == 1000 * rebirths
    IN  Max(base_cost, (Max(bal - base_cost, 1) * rebirth_cost) \div 100)

\* A character that passes whatever its level.
MaxedAlways(c) == TRUE

\* not (c.lvl < c.maxlevel)
Maxed(c) == ~(c.lvl < MaxLevel)

\* c.rebirth(): the level is reset and the rebirths go up by one.
Reborn(c) == [c EXCEPT !.lvl = 1, !.rebirths = @ + 1]

\* round(bal * 0.2): a fifth of the balance, to the nearest integer.
Fifth(bal) == IF bal % 5 >= 3 THEN (bal \div 5) + 1 ELSE bal \div 5

\* A command at the desk that ends with a reply.
Ends(cmd, reply) == [NoOffice EXCEPT !.cmd = cmd, !.reply = reply]

\* ConfirmView: interaction_check turns away every user but the author;
\* the author's Yes or No, or the timeout, ends the wait.
TurnedAway(user, button) == button # "timeout" /\ user # Author

\* The rebirth command up to its prompt: refused in an adventure, in a DM,
\* with a sheet that fails to load, below the max level, with the currency
\* checked in the last 10 seconds, with less than a quarter of the last
\* known currency, or without the funds; otherwise the price is announced
\* and the user asked, with the user's lock held.
RebirthAsk(in_adv, dm_ok, sheet_ok, last_check, known, rebirth_cost, has_fund) ==
    /\ office.pc = "idle"
    /\ asked < MaxCommands
    /\ asked' = asked + 1
    /\ LET bal      == wealth
           withdraw == RebirthPrice(bal, hero.rebirths, rebirth_cost)
       IN  office' =
             IF in_adv THEN Ends("rebirth", "adventure")
             ELSE IF ~dm_ok THEN Ends("rebirth", "dm")
             ELSE IF ~sheet_ok THEN Ends("rebirth", "error")
             ELSE IF ~Maxed(hero) THEN Ends("rebirth", "level")
             ELSE IF ~(last_check + 10 < now) THEN Ends("rebirth", "wait")
             ELSE IF known # 0 /\ wealth * 4 < known THEN Ends("rebirth", "squandered")
             ELSE IF ~has_fund THEN Ends("rebirth", "poor")
             ELSE [NoOffice EXCEPT !.cmd = "rebirth", !.pc = "prompt", !.bal = bal,
                                   !.cost = withdraw, !.lvl = hero.lvl]
    /\ UNCHANGED <<wealth, hero>>
    /\ UNCHANGED <<seedvars, play, trade, skill, report>>

\* The rebirth command after its prompt: a timeout or a No ends it; after
\* a Yes the sheet is loaded again, a character below the max level ends
\* it, and otherwise the price is withdrawn (or the balance set to 0 when
\* the balance read before the prompt was below it) and the reborn
\* character saved. A withdrawal beyond the balance raises.
RebirthAnswer(user, button, sheet_ok) ==
    /\ office.cmd = "rebirth"
    /\ office.pc = "prompt"
    /\ IF TurnedAway(user, button)
          THEN UNCHANGED <<wealth, hero, office>>
       ELSE IF button = "timeout"
          THEN office' = Ends("rebirth", "timeout") /\ UNCHANGED <<wealth, hero>>
       ELSE IF button = "no"
          THEN office' = [Ends("rebirth", "declined") EXCEPT !.answer = button]
               /\ UNCHANGED <<wealth, hero>>
       ELSE IF ~sheet_ok
          THEN office' = [Ends("rebirth", "error") EXCEPT !.answer = button]
               /\ UNCHANGED <<wealth, hero>>
       ELSE IF ~Maxed(hero)
          THEN office' = [Ends("rebirth", "level") EXCEPT !.answer = button]
               /\ UNCHANGED <<wealth, hero>>
       ELSE IF office.bal >= office.cost /\ wealth < office.cost
          THEN office' = [Ends("rebirth", "error") EXCEPT !.answer = button]
               /\ UNCHANGED <<wealth, hero>>
       ELSE /\ wealth' = IF office.bal >= office.cost THEN wealth - office.cost ELSE 0
            /\ hero' = Reborn(hero)
            /\ office' = [Ends("rebirth", "reborn") EXCEPT !.answer = button]
    /\ UNCHANGED asked
    /\ UNCHANGED <<seedvars, play, trade, skill, report>>

\* The heroclass command up to its prompt: refused in an adventure or in a
\* DM; the balance is read and a fifth of it is the cost; a sheet that
\* fails to load, the class the hero has, and psychic below 20 rebirths end
\* it; otherwise the cost is announced and the user asked. Of the
\* heroclass record of the character the class alone is followed.
ClassAsk(clz, in_adv, dm_ok, sheet_ok) ==
    /\ office.pc = "idle"
    /\ asked < MaxCommands
    /\ asked' = asked + 1
    /\ LET bal   == wealth
           spend == Fifth(bal)
       IN  office' =
             IF in_adv THEN Ends("heroclass", "adventure")
             ELSE IF ~dm_ok THEN Ends("heroclass", "dm")
             ELSE IF ~sheet_ok THEN Ends("heroclass", "error")
             ELSE IF hero.hc = clz THEN Ends("heroclass", "already")
             ELSE IF clz = "psychic" /\ hero.rebirths < 20
                THEN Ends("heroclass", "inexperienced")
             ELSE [NoOffice EXCEPT !.cmd = "heroclass", !.pc = "prompt", !.bal = bal,
                                   !.cost = spend, !.clz = clz, !.was = hero.hc]
    /\ UNCHANGED <<wealth, hero>>
    /\ UNCHANGED <<seedvars, play, trade, skill, report>>

\* c.heroclass = clz.to_json(), saved with the character that was loaded.
Trained(c, clz) == [c EXCEPT !.hc = clz]

\* The heroclass command after its prompt: anything but a Yes, a cost above
\* the balance read or above what bank.can_spend allows, a sheet that fails
\* to load and a level below 10 end it; a ranger or tinkerer is asked once
\* more; any other hero gets the new class, saved at once, and the
\* withdrawal is next.
ClassAnswer(user, button, sheet_ok) ==
    /\ office.cmd = "heroclass"
    /\ office.pc = "prompt"
    /\ IF TurnedAway(user, button)
          THEN UNCHANGED <<hero, office>>
       ELSE IF button # "yes"
          THEN office' = [Ends("heroclass", "declined") EXCEPT !.answer = button]
               /\ UNCHANGED hero
       ELSE IF office.bal < office.cost \/ ~(wealth >= office.cost)
          THEN office' = [Ends("heroclass", "broke") EXCEPT !.answer = button]
               /\ UNCHANGED hero
       ELSE IF ~sheet_ok
          THEN office' = [Ends("heroclass", "error") EXCEPT !.answer = button]
               /\ UNCHANGED hero
       ELSE IF ~(hero.lvl >= ClassLevel)
          THEN office' = [Ends("heroclass", "level") EXCEPT !.answer = button]
               /\ UNCHANGED hero
       ELSE IF office.was \in {"tinkerer", "ranger"}
          THEN office' = [office EXCEPT !.pc = "proceed", !.c = hero, !.answer = button]
               /\ UNCHANGED hero
       ELSE /\ hero' = Trained(hero, office.clz)
            /\ office' = [office EXCEPT !.pc = "pay", !.answer = button]
    /\ UNCHANGED <<wealth, asked>>
    /\ UNCHANGED <<seedvars, play, trade, skill, report>>

\* The second prompt, of a ranger or tinkerer: a timeout or a No ends the
\* command; after a Yes the character that was loaded gets the new class
\* and is saved, and the withdrawal is next.
ClassProceed(user, button) ==
    /\ office.cmd = "heroclass"
    /\ office.pc = "proceed"
    /\ IF TurnedAway(user, button)
          THEN UNCHANGED <<hero, office>>
       ELSE IF button = "timeout"
          THEN office' = [Ends("heroclass", "timeout") EXCEPT !.answer = office.answer]
               /\ UNCHANGED hero
       ELSE IF button = "no"
          THEN office' = [Ends("heroclass", "remain") EXCEPT !.answer = office.answer]
               /\ UNCHANGED hero
       ELSE /\ hero' = Trained(office.c, office.clz)
            /\ office' = [office EXCEPT !.pc = "pay", !.c = NoSheet]
    /\ UNCHANGED <<wealth, asked>>
    /\ UNCHANGED <<seedvars, play, trade, skill, report>>

\* The end of the heroclass command: bank.withdraw_credits(ctx.author,
\* spend), whose ValueError, raised for a cost beyond the balance, is
\* answered with the message of a hero who is broke.
ClassPay ==
    /\ office.cmd = "heroclass"
    /\ office.pc = "pay"
    /\ IF wealth >= office.cost
          THEN /\ wealth' = wealth - office.cost
               /\ office' = [Ends("heroclass", "changed") EXCEPT
                                !.answer = office.answer, !.clz = office.clz]
       ELSE /\ office' = [Ends("heroclass", "broke") EXCEPT
                                !.answer = office.answer, !.clz = office.clz]
            /\ UNCHANGED wealth
    /\ UNCHANGED <<hero, asked>>
    /\ UNCHANGED <<seedvars, play, trade, skill, report>>

\* The hero pays for something else meanwhile, as the cart's form does
\* with bank.withdraw_credits under no lock.
Spend(left) ==
    /\ left < wealth
    /\ wealth' = left
    /\ UNCHANGED <<hero, office, asked>>
    /\ UNCHANGED <<seedvars, play, trade, skill, report>>

\* The saved character changes level while a prompt waits, which the
\* commands load the sheet again for.
LevelMoves(lvl) ==
    /\ office.pc \in {"prompt", "proceed"}
    /\ lvl # hero.lvl
    /\ hero' = [hero EXCEPT !.lvl = lvl]
    /\ UNCHANGED <<wealth, office, asked>>
    /\ UNCHANGED <<seedvars, play, trade, skill, report>>

NextCodec ==
    \/ StartAdventure
    \/ ShowSeed
    \/ \E n \in TypedSeeds : TypeSeed(n)
    \/ AdventureSeed

Next ==
    \/ StartAdventure
    \/ ShowSeed
    \/ \E n \in AuditSeeds : TypeSeed(n)
    \/ AdventureSeed
    \/ \E o \in Owners, op \in DrawOps : DrawCall(o, op)
    \/ \E o \in Owners : GetStateCall(o)
    \/ \E o \in Owners : SetStateCall(o)

NextPair ==
    \/ StartAdventure
    \/ StartRival
    \/ ShowSeed

NextArgs ==
    \/ StartAdventure
    \/ \E op \in DrawOps \cup BadOps : DrawCall("game", op)

NextDuel ==
    \/ StartAdventure
    \/ StartRival
    \/ \E o \in {"game", "rival"}, op \in DrawOps : DrawCall(o, op)

Interactions ==
    [user : Users, session : Sessions, action : Actions, stage : {"check", "callback"}]

NextPlay ==
    \/ \E b \in Presses : Press(b.user, b.session, b.action)
    \/ \E i \in Interactions, has_fund \in BOOLEAN : InteractionCheck(i, has_fund)
    \/ \E i \in Interactions, sheet_ok \in BOOLEAN : Callback(i, sheet_ok)

\* The rolls the module random's randint can give a hero.
Rolls(u) == low_roll(Rebirths[u]) .. max_roll(Rebirths[u])

NextSkill ==
    \/ \E a \in Attempts, sheet_ok \in BOOLEAN : Enter(a[1], a[2], sheet_ok)
    \/ \E a \in Attempts : Act(a[1], a[2])
    \/ \E a \in Attempts, sheet_ok \in BOOLEAN : \E k \in Rolls(a[1]) :
            a[2] = "command" /\ InsightCommand(a[1], sheet_ok, k)
    \/ \E a \in Attempts : a[2] = "command" /\ InsightSave(a[1])
    \/ Tick

Buttons == {"yes", "no", "timeout"}

NextDesk ==
    \/ \E in_adv \in BOOLEAN, dm_ok \in BOOLEAN, sheet_ok \in BOOLEAN,
          last_check \in {now - 5, now - 60}, known \in KnownCurrencies,
          rebirth_cost \in RebirthCosts, has_fund \in BOOLEAN :
            RebirthAsk(in_adv, dm_ok, sheet_ok, last_check, known, rebirth_cost, has_fund)
    \/ \E user \in Users, button \in Buttons, sheet_ok \in BOOLEAN :
            RebirthAnswer(user, button, sheet_ok)
    \/ \E clz \in Wanted, in_adv \in BOOLEAN, dm_ok \in BOOLEAN, sheet_ok \in BOOLEAN :
            ClassAsk(clz, in_adv, dm_ok, sheet_ok)
    \/ \E user \in Users, button \in Buttons, sheet_ok \in BOOLEAN :
            ClassAnswer(user, button, sheet_ok)
    \/ \E user \in Users, button \in Buttons : ClassProceed(user, button)
    \/ ClassPay
    \/ \E left \in Funds : Spend(left)
    \/ \E lvl \in {1, ClassLevel, MaxLevel} : LevelMoves(lvl)

NextAudit ==
    \/ \E n \in AuditSeeds : TypeSeed(n)
    \/ AdventureSeed
    \/ \E op \in DrawOps : DrawCall("audit", op)
    \/ SeedReport

NextCart ==
    \/ \E text \in AmountInputs, sheet_ok \in BOOLEAN, full \in BOOLEAN :
            OnSubmit(text, sheet_ok, full)
    \/ \E widget \in {"button", "select"} : Choose(widget)
    \/ CartLeaves

\* The seed codec alone, over a wide set of seeds.
SpecCodec == InitCodec /\ [][NextCodec]_vars

\* The seeds of the adventures of two guilds.
SpecPair == InitPair /\ [][NextPair]_vars

\* The adventure's generator, called with arguments good and bad.
SpecArgs == Init /\ [][NextArgs]_vars

\* The adventures of two guilds drawing from their generators in any order.
SpecDuel == InitDuel /\ [][NextDuel]_vars

\* The sessions of two guilds and the button presses of their users.
SpecPlay == InitPlay /\ [][NextPlay]_vars

\* The cart and the purchase forms of one customer.
SpecCart == InitCart /\ [][NextCart]_vars

\* The special actions of two heroes of one adventure, by button and by
\* command, as the clock moves on.
SpecSkill == InitSkill /\ [][NextSkill]_vars

\* The rebirth and heroclass commands of one hero, with the hero's balance
\* and level moving meanwhile.
SpecDesk == InitDesk /\ [][NextDesk]_vars

\* The adventureseed command: its draws and its report.
SpecAudit == Init /\ [][NextAudit]_vars

\* The adventure and its audit, generators included.
Spec == Init /\ [][Next]_vars

\* ------------------------------------------------------------------------
\* Sanity of the model
\* ------------------------------------------------------------------------

\* A bit set that is far from the ends of the modelled range.
Fits(a) == (IntBits - 2 \in a) <=> (IntBits - 1 \in a)

\* No integer of the model reaches the modelled width.
IntsFit ==
    /\ Fits(encounter.message_id)
    /\ Fits(GameSeedInt(encounter))
    /\ number # NoInt => Fits(number)
    /\ gameseed # NoSeed => Fits(gameseed.message_id) /\ Fits(GameSeedInt(gameseed))

TypeOK ==
    /\ encounter \in CodecSeeds
    /\ number = NoInt \/ number \subseteq Bit
    /\ gameseed = NoSeed \/ gameseed.message_id \subseteq Bit
    /\ \A o \in Owners :
        /\ rng[o] = NoRng \/ rng[o].state \in 0 .. 65535
        /\ snap[o] = NoState \/ snap[o] \in 0 .. 65535
        /\ Len(hist[o]) <= MaxCalls
    /\ \A s \in Sessions, a \in Actions :
        /\ \A i \in 1 .. Len(lists[s][a]) : lists[s][a][i] \in Users
        /\ last_update[s][a] \in 0 .. MaxPresses
    /\ flight \subseteq Interactions
    /\ pressed \in 0 .. MaxPresses
    /\ restrict \in BOOLEAN
    /\ balance \in 0 .. 300
    /\ backpack \in 0 .. (2 * MaxSubmits)
    /\ cart_open \in BOOLEAN
    /\ receipt \in {"none", "form", "left", "wasting", "poor", "sheet_error", "full",
                    "bought"}
    /\ submits \in 0 .. MaxSubmits
    /\ forms \in 0 .. MaxSubmits
    /\ stopped \in BOOLEAN
    /\ now \in StartTime .. (StartTime + MaxTicks * TickLength)
    /\ \A u \in Users :
        /\ sheet[u].hc \in Classes
        /\ sheet[u].ability \in BOOLEAN
        /\ held[u] \in Paths \cup {"free"}
        /\ Len(used[u]) <= 2
        /\ \A p \in Paths : jobs[u][p].pc \in {"idle", "locked", "rolled", "done"}
    /\ insight.roll \in 0 .. 100
    /\ exposed \in BOOLEAN
    /\ wealth \in 0 .. 50000
    /\ hero.lvl \in 1 .. MaxLevel
    /\ hero.hc \in {"hero", "bard", "ranger"} \cup Wanted
    /\ office.pc \in {"idle", "prompt", "proceed", "pay"}
    /\ asked \in 0 .. MaxCommands

\* ------------------------------------------------------------------------
\* Vocabulary of the claims
\* ------------------------------------------------------------------------

\* The audit command was given the integer of the running encounter and
\* has decoded it.
Decoded == gameseed # NoSeed

Encoded == number # NoInt /\ number = GameSeedInt(encounter)

RoundTripped == Encoded /\ Decoded

\* Stats that fit their 14-bit fields.
StatsInRange(sr) ==
    /\ sr.min_stat \in 0 .. STAT_CAP
    /\ sr.max_stat \in 0 .. STAT_CAP

\* win_percent in [0, 1]
WinInUnit(sr) == sr.win_percent \in 0 .. 300

\* win_percent is a whole number of percent
WholePercent(sr) == sr.win_percent % 3 = 0

\* The integer percent nearest to win_percent w (in thirds of a percent),
\* stated without the rounding formula.
NearestPercent(w) == CHOOSE p \in 0 .. 100 : (3 * p) - w \in {0 - 1, 0, 1}

\* C1: for stat_type hp or diplomacy, min_stat <= max_stat in [0, 16383], a
\* whole percent in [0, 1] and any event id >= 0, decoding the encoded seed
\* gives back a StatRange equal to the original in all four fields.
C1_RoundTrip ==
    ( /\ RoundTripped
      /\ ~IsNeg(encounter.message_id)
      /\ StatsInRange(encounter.stat_range)
      /\ encounter.stat_range.min_stat <= encounter.stat_range.max_stat
      /\ WinInUnit(encounter.stat_range)
      /\ WholePercent(encounter.stat_range) )
    => gameseed.stat_range = encounter.stat_range

\* The documented example round-trips: (hp, 10, 500, 0.73).
C1_Witness ==
    /\ RoundTripped
    /\ encounter = GameSeed(ExampleId, StatRange("hp", 10, 500, 219))
    /\ gameseed.stat_range = StatRange("hp", 10, 500, 219)

\* C2: for any event id >= 0 and any StatRange, decoding the encoded seed
\* recovers a timestamp equal to event_id >> 38.
C2_TimestampPreserved ==
    (RoundTripped /\ ~IsNeg(encounter.message_id))
    => timestamp(gameseed) = Shr(encounter.message_id, TIMESTAMP_SHIFT)

\* The value the min field (bits 23-36) and the max field (bits 9-22) of an
\* integer hold.
MinField(n) == Field(n, MIN_STAT_SHIFT, HP_SHIFT - MIN_STAT_SHIFT)

MaxField(n) == Field(n, MAX_STAT_SHIFT, MIN_STAT_SHIFT - MAX_STAT_SHIFT)

WinField(n) == Field(n, 0, MAX_STAT_SHIFT)

C5_BothClamped ==
    Encoded
    => /\ min_stat(encounter) \in 0 .. STAT_CAP
       /\ max_stat(encounter) \in 0 .. STAT_CAP
       /\ WinInUnit(encounter.stat_range)
            => /\ MinField(number) = min_stat(encounter)
               /\ MaxField(number) = max_stat(encounter)

C8_DecodeTotal ==
    (number # NoInt /\ ~IsNeg(number))
    => LET sr == from_int(number).stat_range
       IN  /\ sr.stat_type \in {"hp", "dipl"}
           /\ (sr.stat_type = "hp") <=> (HP_SHIFT \in number)
           /\ sr.min_stat \in 0 .. STAT_CAP
           /\ sr.max_stat \in 0 .. STAT_CAP
           /\ Decoded => gameseed.stat_range = sr

\* An integer no encounter produced (2^37 - 1) has been decoded.
C8_Witness ==
    /\ Decoded
    /\ number = Ones(HP_SHIFT)
    /\ number # GameSeedInt(encounter)
    /\ gameseed.stat_range.stat_type = "dipl"
    /\ gameseed.stat_range.min_stat = STAT_CAP
    /\ gameseed.stat_range.max_stat = STAT_CAP

\* C9 as stated: every non-negative integer decodes to a StatRange whose
\* win_percent lies in [0.0, 1.0].
C9_WinPercentInUnit ==
    (Decoded /\ ~IsNeg(number)) => WinInUnit(gameseed.stat_range)

\* C9 amended: every non-negative integer decodes to a StatRange whose
\* integer percent is the low 9 bits of the integer, between 0 and 511, so
\* win_percent lies in [0.0, 5.11]; it lies in [0.0, 1.0] exactly when the
\* low 9 bits are at most 100.
C9_WinPercentNineBits ==
    (Decoded /\ ~IsNeg(number))
    => /\ gameseed.stat_range.win_percent = DivHundred(WinField(number))
       /\ gameseed.stat_range.win_percent \in 0 .. DivHundred(511)
       /\ WinInUnit(gameseed.stat_range) <=> WinField(number) <= 100

\* The integer 511 has been decoded: win_percent 5.11.
C9_Witness ==
    /\ Decoded
    /\ number = FromNat(511)
    /\ gameseed.stat_range.win_percent = DivHundred(511)
    /\ ~WinInUnit(gameseed.stat_range)

\* ------------------------------------------------------------------------
\* Claims about the generators
\* ------------------------------------------------------------------------

Built(o) == rng[o] # NoRng

\* The integer o's generator was seeded with.
SeedOf(o) == GameSeedInt(rng[o].internal_seed)

OpsOf(h) == [k \in 1 .. Len(h) |-> h[k].op]

\* Two call histories give the same results as long as the calls are the same.
Agree(h1, h2) ==
    \A k \in 1 .. Min(Len(h1), Len(h2)) :
        (\A m \in 1 .. k : h1[m].op = h2[m].op) => h1[k].val = h2[k].val

\* C3: two Random instances built from seeds with equal integer values give
\* identical results, call by call, for identical sequences of calls.
C3_Determinism ==
    (Built("game") /\ Built("audit") /\ SeedOf("game") = SeedOf("audit"))
    => /\ Agree(hist["game"], hist["audit"])
       /\ OpsOf(hist["game"]) = OpsOf(hist["audit"])
            => rng["game"].state = rng["audit"].state

\* Two generators built from different seed objects of equal integer value
\* have each answered the same two calls, a randint(0, 100) first.
C3_Witness ==
    /\ Built("game") /\ Built("audit")
    /\ rng["game"].internal_seed # rng["audit"].internal_seed
    /\ SeedOf("game") = SeedOf("audit")
    /\ Len(hist["game"]) = 2
    /\ hist["game"][1].op = Op("randint", 0, 100)
    /\ hist["game"][2].op \in DrawOps
    /\ hist["audit"] = hist["game"]

\* The audit command was handed the integer of the running adventure.
Audited == Built("game") /\ Built("audit") /\ Encoded

\* C7 as stated: a Random built from from_int(int(s)) is seeded with the
\* same integer as Random(s), gives the same results for the same calls,
\* and the decoded stat range equals the one that was encoded.
C7_ReplayExact ==
    Audited
    => /\ rng["audit"].internal_seed = from_int(SeedOf("game"))
       /\ SeedOf("audit") = SeedOf("game")
       /\ Agree(hist["game"], hist["audit"])
       /\ gameseed.stat_range = encounter.stat_range

\* C7 amended: same integer and same results; the decoded stat range equals
\* the encoded one in stat_type, min_stat and max_stat when these lie in
\* [0, 16383], with a win_percent in [0, 1] rounded to the nearest whole
\* percent: all four fields are equal when win_percent is a whole percent.
C7_ReplayRounded ==
    Audited
    => /\ rng["audit"].internal_seed = from_int(SeedOf("game"))
       /\ SeedOf("audit") = SeedOf("game")
       /\ Agree(hist["game"], hist["audit"])
       /\ (StatsInRange(encounter.stat_range) /\ WinInUnit(encounter.stat_range))
            => /\ gameseed.stat_range =
                    [encounter.stat_range EXCEPT
                        !.win_percent = DivHundred(NearestPercent(@))]
               /\ WholePercent(encounter.stat_range)
                    => gameseed.stat_range = encounter.stat_range

\* The audit of an adventure whose win_percent is 2/3 drew the same value
\* as the adventure and shows 0.67.
C7_Witness ==
    /\ Audited
    /\ encounter.stat_range.win_percent = 200
    /\ gameseed.stat_range.win_percent = DivHundred(67)
    /\ Len(hist["audit"]) >= 1
    /\ hist["audit"][1].op \in DrawOps
    /\ Len(hist["game"]) >= 1
    /\ hist["game"][1] = hist["audit"][1]

RECURSIVE Replay(_, _, _)
Replay(s, k, h) ==
    IF h = <<>> THEN s
    ELSE LET c == Head(h)
         IN  IF c.op = GetStateOp
                 THEN IF c.val = s THEN Replay(s, s, Tail(h)) ELSE NoState
             ELSE IF c.op = SetStateOp
                 THEN Replay(k, k, Tail(h))
             ELSE LET r == Draw(s, c.op)
                  IN  IF r.val = c.val /\ r.err = c.err
                          THEN Replay(r.state, k, Tail(h))
                      ELSE NoState

\* C11: Random(seed) keeps the seed object itself as internal_seed and is
\* seeded from int(seed); after any draws, getstate and setstate calls,
\* internal_seed is still the object it was built from (the encounter's
\* GameSeed for the game, the decoded GameSeed for the audit), and the
\* generator is where one seeded with int(internal_seed) is after the same
\* calls.
C11_SeedRetained ==
    /\ Built("game") => rng["game"].internal_seed = encounter
    /\ Built("audit") => rng["audit"].internal_seed = gameseed
    /\ \A o \in Owners :
        Built(o) => rng[o].state = Replay(SeedState(SeedOf(o)), NoState, hist[o])

\* The game's generator has answered a draw, a getstate, a setstate and a
\* further draw, and still holds the encounter's GameSeed, whose message id
\* is more than the timestamp its integer keeps.
C11_Witness ==
    /\ Built("game")
    /\ Len(hist["game"]) = 4
    /\ hist["game"][1].op \in DrawOps
    /\ hist["game"][2].op = GetStateOp
    /\ hist["game"][3].op = SetStateOp
    /\ hist["game"][4].op \in DrawOps
    /\ rng["game"].internal_seed = encounter
    /\ encounter.message_id # Shl(timestamp(encounter), TIMESTAMP_SHIFT)
    /\ encounter # from_int(GameSeedInt(encounter))

\* The highest bit of a bit set that is not empty.
Top(a) == CHOOSE j \in a : \A k \in a : k <= j

\* a < b
Less(a, b) ==
    IF IsNeg(a) # IsNeg(b) THEN IsNeg(a)
    ELSE LET d == Xor(a, b) IN d # {} /\ Top(d) \in b

\* The low 38 bits of n.
Low38(n) == n \cap (0 .. (TIMESTAMP_SHIFT - 1))

\* The adventures of both guilds have started.
BothBuilt == Built("game") /\ Built("rival")

\* C12: for any two event ids e1, e2 with (e1 >> 38) < (e2 >> 38) and any
\* StatRanges s1, s2, the integer seed of (e1, s1) is smaller than the
\* integer seed of (e2, s2).
C12_Monotonic ==
    (BothBuilt /\ Less(timestamp(encounter), timestamp(rival)))
    => Less(SeedOf("game"), SeedOf("rival"))

Invalid(op) ==
    \/ op.name = "choice" /\ op.a = 0
    \/ op.name = "randint" /\ op.a > op.b

NoCallOn(o) == Built(o) /\ hist'[o] = hist[o]

\* C15: each adventure owns its Random instance, and in any interleaving
\* of draws a draw on one instance leaves the other's state, and with it
\* every result the other will give, as it was.
C15_PerInstance ==
    [][ \A o \in {"game", "rival"} :
            NoCallOn(o)
            => /\ rng'[o] = rng[o]
               /\ \A op \in DrawOps : Draw(rng'[o].state, op) = Draw(rng[o].state, op) ]_vars

\* Both adventures have drawn twice, and each generator is where its own
\* seed and its own two draws put it, the two being in different states.
C15_Witness ==
    /\ BothBuilt
    /\ Len(hist["game"]) = 2
    /\ Len(hist["rival"]) = 2
    /\ rng["game"].state = Replay(SeedState(SeedOf("game")), NoState, hist["game"])
    /\ rng["rival"].state = Replay(SeedState(SeedOf("rival")), NoState, hist["rival"])
    /\ rng["game"].state # rng["rival"].state

\* C16: a min_stat or max_stat above 16383 or below 0 never alters the
\* other fields of the seed: the timestamp and the stat-type flag decoded
\* from the seed are the ones that were encoded.
C16_StatsStayInField ==
    ( /\ RoundTripped
      /\ ~IsNeg(encounter.message_id)
      /\ ~StatsInRange(encounter.stat_range) )
    => /\ timestamp(gameseed) = timestamp(encounter)
       /\ gameseed.stat_range.stat_type = encounter.stat_range.stat_type

\* C17: for every integer n >= 0, produced by the encoder or not,
\* int(GameSeed.from_int(n)) = n.
C17_DecodeEncode ==
    (number # NoInt /\ ~IsNeg(number))
    => /\ GameSeedInt(from_int(number)) = number
       /\ Decoded => GameSeedInt(gameseed) = number

\* The audit command decoded 2^37 - 1, an integer no encoder produced
\* (min field 16383 over max field 16383 over a win field of 511), and the
\* decoded seed encodes to it again.
C17_Witness ==
    /\ Decoded
    /\ number = Ones(HP_SHIFT)
    /\ gameseed.stat_range = StatRange("dipl", STAT_CAP, STAT_CAP, DivHundred(511))
    /\ GameSeedInt(gameseed) = number

\* ------------------------------------------------------------------------
\* Claims about the sessions
\* ------------------------------------------------------------------------

\* The places of user in the five lists of a session.
Places(view, user) ==
    { pl \in [action : Actions, at : 1 .. MaxPresses + 1] :
        pl.at <= Len(view[pl.action]) /\ view[pl.action][pl.at] = user }

\* The sessions in whose lists user is.
Joined(user) == { s \in Sessions : in_adventure(lists[s], user) }

\* C18: with the restrict setting on, in any interleaving of interaction
\* checks and button callbacks, no user is in the action lists of more
\* than one session.
C18_OneAdventure ==
    restrict => \A u \in Users : Cardinality(Joined(u)) <= 1

\* Every user is in at most one list of a session, once.
OneAction == \A s \in Sessions, u \in Users : Cardinality(Places(lists[s], u)) <= 1

\* The step is the callback of interaction i.
CallbackOf(i) == i \in flight /\ i.stage = "callback" /\ i \notin flight'

\* C19: in a session every user is in at most one of the five action lists
\* and at most once in it, whatever the presses and their interleaving; the
\* callback of a press leaves the user in the list of the pressed action
\* and in no other, and leaves all five lists as they were when the user
\* was in that list already.
C19_OneActionEach ==
    /\ []OneAction
    /\ [][ \A i \in Interactions :
            CallbackOf(i)
            => /\ Cardinality(Places(lists'[i.session], i.user)) = 1
               /\ \A pl \in Places(lists'[i.session], i.user) : pl.action = i.action
               /\ Has(lists[i.session][i.action], i.user) => lists' = lists ]_vars

\* Three callbacks have appended a user to a list of the first session
\* and drawn a response, so one of the two users has changed action: bob
\* is alone in fight, ann alone in talk, and the labels show one each.
C19_Witness ==
    /\ lists["game"] = [NewSession EXCEPT !["fight"] = <<"bob">>, !["talk"] = <<"ann">>]
    /\ last_update["game"] = [NoLabels EXCEPT !["fight"] = 1, !["talk"] = 1]
    /\ Len(hist["game"]) = 3
    /\ flight = {}

\* ------------------------------------------------------------------------
\* Claims about the cart
\* ------------------------------------------------------------------------

\* The step is a purchase form that ended as r says.
Ended(r) == submits' # submits /\ receipt' = r

\* C20: a purchase is all or nothing: whenever the price is taken from the
\* balance the item is added to the saved backpack, and a purchase that
\* ends on a full backpack or on a character sheet that fails to load
\* leaves the balance as it was.
C20_AllOrNothing ==
    [][ /\ balance' # balance => backpack' > backpack
        /\ (Ended("full") \/ Ended("sheet_error")) => balance' = balance ]_vars

\* C21: absent a dev reset or a class change, two successful activations
\* of the class ability of one character are never less than 300 seconds
\* apart, however the button and the command interleave.
C21_CooldownApart ==
    \A u \in Users : \A i, j \in 1 .. Len(used[u]) :
        i < j => used[u][j] - used[u][i] >= 300

\* The insight attempts that roll in a step: the hero, the path and the roll.
NewRolls ==
    {<<a, jobs'[a[1]][a[2]].roll>> : a \in
        {b \in Attempts : jobs[b[1]][b[2]].roll = NoRoll /\ jobs'[b[1]][b[2]].roll # NoRoll}}

\* C22: the insight roll of a session never decreases: an insight attempt,
\* by button or by command, replaces the insight only when its roll is
\* strictly greater, and otherwise leaves it as it is and tells the psychic
\* that another hero did better.
C22_InsightNeverDecreases ==
    [][/\ insight'.roll >= insight.roll
       /\ insight' # insight => NewRolls # {}
       /\ \A n \in NewRolls :
            LET u == n[1][1]
                p == n[1][2]
            IN  IF n[2] > insight.roll
                   THEN /\ insight' = [roll |-> n[2], by |-> u]
                        /\ jobs'[u][p].reply = "focusing"
                ELSE /\ insight' = insight
                     /\ jobs'[u][p].reply = "better"]_vars

\* The command's roll was kept and the button's roll, no better, was not,
\* or the other way round.
C22_Witness ==
    \E a, b \in Attempts :
        /\ a[2] # b[2]
        /\ jobs[a[1]][a[2]].reply = "focusing"
        /\ jobs[b[1]][b[2]].reply = "better"
        /\ jobs[b[1]][b[2]].roll <= jobs[a[1]][a[2]].roll
        /\ jobs[b[1]][b[2]].roll > 0
        /\ insight.roll = jobs[a[1]][a[2]].roll

\* A step of the command at the desk.
DeskStep == office' # office \/ asked' # asked

\* The replies of a rebirth that did not go through.
Refusals ==
    {"adventure", "dm", "error", "level", "wait", "squandered", "poor",
     "timeout", "declined"}

\* C23: the rebirth command changes the bank balance and the stored
\* character only when the character is at max level before and after the
\* prompt and the user confirms; on No, on a timeout and on every failed
\* precondition neither the balance nor the character is modified.
C23_RebirthOnlyConfirmed ==
    [][DeskStep /\ (office.cmd = "rebirth" \/ office'.cmd = "rebirth") =>
          /\ (wealth' # wealth \/ hero' # hero) =>
                /\ office.pc = "prompt"
                /\ office.lvl >= MaxLevel
                /\ hero.lvl >= MaxLevel
                /\ office'.answer = "yes"
                /\ office'.reply = "reborn"
          /\ office'.reply \in Refusals => wealth' = wealth /\ hero' = hero
          /\ office'.reply = "reborn" => hero' = Reborn(hero)]_vars

\* The second rebirth command of the run went through after a Yes: the
\* hero is back at level 1.
C23_Witness ==
    /\ office.cmd = "rebirth"
    /\ office.reply = "reborn"
    /\ office.answer = "yes"
    /\ hero.lvl = 1
    /\ asked = MaxCommands

\* C24: whenever the heroclass command persists a class change, the
\* announced cost, a fifth of the balance read at its start, is withdrawn;
\* no class change is kept without the withdrawal.
C24_ClassChangePaid ==
    [][DeskStep /\ office.cmd = "heroclass" /\ office.pc # "idle" /\ office'.pc = "idle"
          /\ hero'.hc = office.clz
          => wealth' = wealth - office.cost /\ office.cost = Fifth(office.bal)]_vars

\* C25: once the cart's end_time has passed no purchase is processed: a
\* form submitted, an item selected or an item button pressed after it
\* stops the view and is answered that the cart has moved on, with no
\* withdrawal and no change of the backpack.
C25_NoSaleAfterEnd ==
    [][~cart_open /\ trade' # trade =>
          /\ stopped'
          /\ receipt' = "left"
          /\ balance' = balance
          /\ backpack' = backpack
          /\ forms' <= forms]_vars

\* A form that was sent while the cart was there was submitted after it
\* had left, by a customer who could have paid.
C25_Witness ==
    /\ ~cart_open
    /\ stopped
    /\ receipt = "left"
    /\ submits >= 1
    /\ balance >= ItemPrice

\* C26: in the adventureseed command the generator state is captured
\* before the easy-mode bit is drawn and restored before the no-monster
\* roll, so that roll is the one the captured state gives, whatever the
\* easy-mode and under-30 draws were, and after the block the generator is
\* exactly one randint(0, 100) beyond the captured state.
C26_ReplayFromCapture ==
    [][report' # report =>
          LET roll == Draw(rng["audit"].state, Op("randint", 0, 100))
          IN  /\ snap'["audit"] = GetState(rng["audit"])
              /\ report'.no_monster = (roll.val = 25)
              /\ rng'["audit"].state = roll.state
              /\ report'.easy_mode = (GetRandBits(rng["audit"].state, 1).val = 1)]_vars

\* The report was made after some draws of the command, with the easy-mode
\* bit set, and the generator has left the captured state.
C26_Witness ==
    /\ report # NoReport
    /\ report.easy_mode
    /\ Len(hist["audit"]) >= 2
    /\ rng["audit"].state # snap["audit"]

====
